---- MODULE Spec2Model ----
(***************************************************************************)
(* A model of pycflow2dot: the cflow call-tree parser (cflow2nx), the      *)
(* exclusion-list pruning (rm_excluded_funcs), the cross-file resolver     *)
(* (node_defined_in_other_src) and the node formatter                      *)
(* (choose_node_format).                                                   *)
(*                                                                         *)
(* Python strings are sequences of one-character strings, so that          *)
(* str.lower(), concatenation and str.strip() are computed, not assumed.   *)
(* A networkx DiGraph is a record [node, edges]: node maps each node       *)
(* identifier to its attribute dictionary, edges is the set of ordered     *)
(* pairs of the adjacency structure.                                       *)
(***************************************************************************)
EXTENDS Integers, Sequences, FiniteSets, TLC

VARIABLES
    funcs,        \* the function names the analyzed file can hold (input domain)
    srcs,         \* the source-line numbers cflow can report (input domain)
    lines,        \* cflow2nx: the non-blank lines consumed so far, in order
    lineno,       \* cflow2nx: how many lines of `lines` the loop has consumed
    g,            \* cflow2nx: the DiGraph being built
    stack,        \* cflow2nx: the dict nest_level -> node
    err,          \* cflow2nx: "none", or the exception that ended the parse
    found_edges,  \* cflow2nx: the 'Found edge' log, one entry per add_edge
    pc,           \* main: the statement main is at
    cflow_strs,   \* main: what call_cflow returned for each file, as call lines
    graphs,       \* main: the list of graphs parsed so far
    exclude,      \* main: args.exclude and the names the file it names lists
    flags,        \* main: args.latex_svg and args.multi_page
    dots,         \* main: what write_graph2dot produced, one entry per graph
    fmt_args,     \* choose_node_format: the arguments of the call
    fmt_out       \* choose_node_format: the results returned so far

parserVars == <<funcs, srcs, lines, lineno, g, stack, err, found_edges>>
mainVars == <<pc, cflow_strs, graphs, exclude, flags, dots>>
fmtVars == <<fmt_args, fmt_out>>
vars == <<parserVars, mainVars, fmtVars>>

-----------------------------------------------------------------------------
(* Bounds of the model *)

\* the longest cflow output parsed line by line
MaxLines == 4
\* the deepest nesting level a line can announce
MaxNest == 2
\* the most source files main is given
MaxFiles == 2
\* the most names the exclusion file lists
MaxExcl == 2
\* the deepest nesting level choose_node_format is called with
MaxFmtNest == 7

-----------------------------------------------------------------------------
(* Strings *)

UpperChars == <<"A","B","C","D","E","F","G","H","I","J","K","L","M",
                "N","O","P","Q","R","S","T","U","V","W","X","Y","Z">>
LowerChars == <<"a","b","c","d","e","f","g","h","i","j","k","l","m",
                "n","o","p","q","r","s","t","u","v","w","x","y","z">>

\* str.lower() on one character
lower_char(c) ==
    IF \E i \in 1..Len(UpperChars) : UpperChars[i] = c
    THEN LowerChars[CHOOSE i \in 1..Len(UpperChars) : UpperChars[i] = c]
    ELSE c

\* str.lower()
lower(word) == [i \in 1..Len(word) |-> lower_char(word[i])]

s_main   == <<"m","a","i","n">>
s_foo    == <<"f","o","o">>
s_bar    == <<"b","a","r">>
s_helper == <<"h","e","l","p","e","r">>
s_graph  == <<"g","r","a","p","h">>
s_Graph  == <<"G","r","a","p","h">>
s_graph_ == <<"g","r","a","p","h","_">>
s_NODE   == <<"N","O","D","E">>

_DOT_RESERVED ==
    { s_graph,
      <<"s","t","r","i","c","t">>,
      <<"d","i","g","r","a","p","h">>,
      <<"s","u","b","g","r","a","p","h">>,
      <<"n","o","d","e">>,
      <<"e","d","g","e">> }

\* mutant: the comparison forgets .lower()
rename_case_sensitive(word) ==
    IF word \in _DOT_RESERVED THEN word \o <<"_">> ELSE word

rename_if_reserved_by_dot(word) ==
    IF lower(word) \in _DOT_RESERVED THEN word \o <<"_">> ELSE word

-----------------------------------------------------------------------------
(* networkx.DiGraph *)

\* nx.DiGraph()
EmptyGraph == [node |-> <<>>, edges |-> {}]

\* the attribute dictionary of a node that add_edge created implicitly: empty
NoAttrs == <<>>

\* `n in graph`
has_node(graph, n) == n \in DOMAIN graph.node

\* mutant: the `not already seen` test always passes
never_seen(graph, n) == FALSE

\* mutant: the `not already seen` test never passes
always_seen(graph, n) == TRUE

\* line 171: `cur_node not in g` is `not node_seen(g, cur_node)`
node_seen(graph, n) == has_node(graph, n)

\* graph.add_node(n, **attrs): creates the node or updates its attributes
add_node(graph, n, attrs) ==
    [graph EXCEPT !.node =
        [m \in (DOMAIN graph.node) \cup {n} |->
            IF m = n THEN attrs ELSE graph.node[m]]]

\* mutant: the duplicate test never finds the edge
has_edge_never(graph, u, v) == FALSE

\* graph.has_edge(u, v)
has_edge(graph, u, v) == <<u, v>> \in graph.edges

\* mutant: the edge is stored callee -> caller
add_edge_reversed(graph, u, v) ==
    [node |-> [m \in (DOMAIN graph.node) \cup {u, v} |->
                  IF m \in DOMAIN graph.node THEN graph.node[m] ELSE NoAttrs],
     edges |-> graph.edges \cup {<<v, u>>}]

\* graph.add_edge(u, v): endpoints that are not nodes yet are created bare
add_edge(graph, u, v) ==
    [node |-> [m \in (DOMAIN graph.node) \cup {u, v} |->
                  IF m \in DOMAIN graph.node THEN graph.node[m] ELSE NoAttrs],
     edges |-> graph.edges \cup {<<u, v>>}]

\* mutant: the node goes, the edges that touch it stay
remove_node_only(graph, n) ==
    [graph EXCEPT !.node = [m \in (DOMAIN graph.node) \ {n} |-> graph.node[m]]]

\* graph.remove_node(n): the node and every edge incident to it
remove_node(graph, n) ==
    [node |-> [m \in (DOMAIN graph.node) \ {n} |-> graph.node[m]],
     edges |-> {e \in graph.edges : e[1] # n /\ e[2] # n}]

-----------------------------------------------------------------------------
(* cflow2nx *)

\* one non-blank line after the regular expressions of lines 149-160
CallLine(nest_level, func_name, src_line_no) ==
    [nest_level |-> nest_level, func_name |-> func_name, src_line |-> src_line_no]

\* the state of the loop of cflow2nx before its first line
ParseStart == [g |-> EmptyGraph, stack |-> <<>>, err |-> "none", log |-> <<>>]

\* mutant: registering a depth forgets the deeper, closed levels
stack_set_truncating(stk, k, v) ==
    [j \in {i \in DOMAIN stk : i < k} \cup {k} |-> IF j = k THEN v ELSE stk[j]]

\* stack[k] = v
stack_set(stk, k, v) ==
    [j \in (DOMAIN stk) \cup {k} |-> IF j = k THEN v ELSE stk[j]]

\* mutant: the caller is looked up at the line's own depth
pred_level_same(nest_level) == nest_level

\* the depth whose stack entry is the caller
pred_level(nest_level) == nest_level - 1

\* the body of the loop for one non-blank line
ProcessLine(st, line) ==
    LET nest_level == line.nest_level
        cur_node   == rename_if_reserved_by_dot(line.func_name)
        stack1     == stack_set(st.stack, nest_level, cur_node)
        g1         == IF ~node_seen(st.g, cur_node)
                      THEN add_node(st.g, cur_node,
                               [nest_level |-> nest_level,
                                src_line |-> line.src_line])
                      ELSE st.g
    IN  IF nest_level # 0
        THEN IF pred_level(nest_level) \notin DOMAIN stack1
             THEN \* stack[nest_level - 1] raises KeyError
                  [g |-> g1, stack |-> stack1, err |-> "KeyError", log |-> st.log]
             ELSE LET pred_node == stack1[pred_level(nest_level)]
                  IN  IF has_edge(g1, pred_node, cur_node)
                      THEN [g |-> g1, stack |-> stack1, err |-> "none",
                            log |-> st.log]
                      ELSE [g |-> add_edge(g1, pred_node, cur_node),
                            stack |-> stack1, err |-> "none",
                            log |-> Append(st.log, <<pred_node, cur_node>>)]
        ELSE [g |-> g1, stack |-> stack1, err |-> "none", log |-> st.log]

\* the whole loop: the state after the lines of ls, stopping at an exception
RECURSIVE RunLines(_, _)
RunLines(st, ls) ==
    IF ls = <<>> \/ st.err # "none" THEN st
    ELSE RunLines(ProcessLine(st, Head(ls)), Tail(ls))

\* cflow2nx(cflow_str, c_fname) on the non-blank lines ls
cflow2nx(ls) == RunLines(ParseStart, ls)

-----------------------------------------------------------------------------
(* The parser, line by line *)

\* the inputs: what the analyzed file names, and the line numbers cflow reports
Universes ==
    { [funcs |-> {s_main, s_foo, s_bar},       srcs |-> {-1}],
      [funcs |-> {s_foo, s_bar},               srcs |-> {-1, 20}],
      [funcs |-> {s_graph, s_graph_, s_Graph}, srcs |-> {-1}] }

\* the variables of cflow2nx while the line-by-line parser is not what runs
ParserIdle ==
    /\ funcs = {}
    /\ srcs = {}
    /\ lines = <<>>
    /\ lineno = 0
    /\ g = ParseStart.g
    /\ stack = ParseStart.stack
    /\ err = ParseStart.err
    /\ found_edges = ParseStart.log

\* the variables of main before main runs
MainIdle ==
    /\ pc = "idle"
    /\ cflow_strs = <<>>
    /\ graphs = <<>>
    /\ exclude = [list_fname |-> "", names |-> <<>>]
    /\ flags = [for_latex |-> FALSE, multi_page |-> FALSE]
    /\ dots = <<>>

\* the variables of choose_node_format before any call
FmtIdle ==
    /\ fmt_args = <<>>
    /\ fmt_out = <<>>

Init ==
    /\ MainIdle
    /\ FmtIdle
    /\ \E u \in Universes : funcs = u.funcs /\ srcs = u.srcs
    /\ lines = <<>>
    /\ lineno = 0
    /\ g = ParseStart.g
    /\ stack = ParseStart.stack
    /\ err = ParseStart.err
    /\ found_edges = ParseStart.log

\* lines 143-144: an empty line is skipped
SkipBlank ==
    /\ err = "none"
    /\ lineno < MaxLines
    /\ lineno' = lineno + 1
    /\ UNCHANGED <<funcs, srcs, lines, g, stack, err, found_edges>>
    /\ UNCHANGED <<mainVars, fmtVars>>

\* lines 145-189: one non-blank line
ParseLine ==
    /\ err = "none"
    /\ lineno < MaxLines
    /\ \E n \in 0..MaxNest, f \in funcs, s \in srcs :
          LET line == CallLine(n, f, s)
              st   == ProcessLine([g |-> g, stack |-> stack, err |-> err,
                                   log |-> found_edges], line)
          IN  /\ lines' = Append(lines, line)
              /\ g' = st.g
              /\ stack' = st.stack
              /\ err' = st.err
              /\ found_edges' = st.log
    /\ lineno' = lineno + 1
    /\ UNCHANGED <<funcs, srcs>>
    /\ UNCHANGED <<mainVars, fmtVars>>

Next == SkipBlank \/ ParseLine

Spec == Init /\ [][Next]_vars

-----------------------------------------------------------------------------
(* choose_node_format *)

_COLORS == <<"#eecc80", "#ccee80", "#80ccee", "#eecc80", "#80eecc">>

\* the list `shapes` of choose_node_format
shapes == <<"box", "ellipse", "octagon", "hexagon", "diamond">>

DigitChars == <<"0","1","2","3","4","5","6","7","8","9">>

\* str(n) for n >= 0
RECURSIVE str_nat(_)
str_nat(n) ==
    IF n < 10 THEN <<DigitChars[n + 1]>>
    ELSE str_nat(n \div 10) \o <<DigitChars[(n % 10) + 1]>>

\* str(n), as '{src_line}'.format(...) writes an int
str_int(n) == IF n < 0 THEN <<"-">> \o str_nat(-n) ELSE str_nat(n)

\* re.sub(r'_', r'\\\\_', s): every underscore becomes two backslashes and `_`
RECURSIVE sub_underscores(_)
sub_underscores(word) ==
    IF word = <<>> THEN <<>>
    ELSE (IF Head(word) = "_" THEN <<"\\", "\\", "_">> ELSE <<Head(word)>>)
         \o sub_underscores(Tail(word))

_escape_underscores(word, for_latex) ==
    IF for_latex THEN sub_underscores(word) ELSE word

\* mutant: the color cycles with the shape
color_index_unshifted(nest_level) == nest_level % 5

\* the index into _COLORS of a node below the root
color_index(nest_level) == (nest_level - 1) % 5

\* mutant: the shape cycle starts at the root's children
shape_index_shifted(nest_level) == (nest_level - 1) % 5

\* the index into shapes of a node below the root
shape_index(nest_level) == nest_level % 5

s_descitem == <<"\\", "\\", "d","e","s","c","i","t","e","m","{">>
s_descref  == <<"\\", "\\", "d","e","s","c","r","e","f","[">>

choose_node_format(node, nest_level, src_line, defined_somewhere, for_latex, multi_page) ==
    LET color  == IF nest_level = 0 THEN _COLORS[1]
                  ELSE _COLORS[color_index(nest_level) + 1]
        shape  == IF nest_level = 0 THEN "box"
                  ELSE shapes[shape_index(nest_level) + 1]
        label0 == _escape_underscores(node, for_latex)
        label1 == IF src_line # -1
                  THEN label0 \o <<"\\", "n">> \o str_int(src_line)
                  ELSE label0
        label2 == IF multi_page
                  THEN IF src_line # -1
                       THEN s_descitem \o node \o <<"}", "\\", "n">> \o label1
                       ELSE IF defined_somewhere
                            THEN s_descref \o label1 \o <<"]", "{">> \o node
                                 \o <<"}">>
                            ELSE label1
                  ELSE label1
    IN  [label |-> label2, color |-> color, shape |-> shape]

-----------------------------------------------------------------------------
(* node_defined_in_other_src, write_graphs2dot, rm_excluded_funcs *)

\* mutant: a node counts as defined wherever it occurs
node_in_other_src(node, other_graphs) ==
    \E k \in 1..Len(other_graphs) : has_node(other_graphs[k], node)

node_defined_in_other_src(node, other_graphs) ==
    \E k \in 1..Len(other_graphs) :
        /\ has_node(other_graphs[k], node)
        /\ other_graphs[k].node[node].src_line # -1

\* mutant: the graph itself stays among the others
other_graphs_all(gs, i) == gs

\* lines 403-404: list(graphs) with the element that is graphs[i] removed
\* (DiGraph defines no __eq__, so list.remove finds the object itself)
other_graphs_of(gs, i) ==
    [k \in 1..(Len(gs) - 1) |-> IF k < i THEN gs[k] ELSE gs[k + 1]]

\* _annotate_graph / dump_dot_wo_pydot: every node with its format, and the
\* value of defined_somewhere it was formatted with; every edge
annotate_graph(graph, other_graphs, for_latex, multi_page) ==
    [node |->
        [n \in DOMAIN graph.node |->
            LET defined_somewhere == node_defined_in_other_src(n, other_graphs)
                f == choose_node_format(n, graph.node[n].nest_level,
                         graph.node[n].src_line, defined_somewhere,
                         for_latex, multi_page)
            IN  [label |-> f.label, color |-> f.color, shape |-> f.shape,
                 defined_somewhere |-> defined_somewhere]],
     edges |-> graph.edges]

Whitespace == {" ", "\n", "\t", "\r"}

\* str.strip()
RECURSIVE strip(_)
strip(word) ==
    IF word = <<>> THEN word
    ELSE IF Head(word) \in Whitespace THEN strip(Tail(word))
    ELSE IF word[Len(word)] \in Whitespace
         THEN strip(SubSeq(word, 1, Len(word) - 1))
    ELSE word

\* open(list_fname).readlines() of a file that lists one name per line
readlines(names) == [k \in 1..Len(names) |-> names[k] \o <<"\n">>]

\* the inner loop of rm_excluded_funcs on one graph
RECURSIVE rm_nodes_from(_, _)
rm_nodes_from(graph, rm_nodes) ==
    IF rm_nodes = <<>> THEN graph
    ELSE rm_nodes_from(
             IF has_node(graph, Head(rm_nodes))
             THEN remove_node(graph, Head(rm_nodes))
             ELSE graph,
             Tail(rm_nodes))

\* rm_excluded_funcs(list_fname, graphs): the graphs after the call
rm_excluded_funcs(list_fname, names, gs) ==
    IF list_fname = "" THEN gs
    ELSE LET file_lines == readlines(names)
             rm_nodes == [k \in 1..Len(file_lines) |-> strip(file_lines[k])]
         IN  [i \in 1..Len(gs) |-> rm_nodes_from(gs[i], rm_nodes)]

-----------------------------------------------------------------------------
(* main, from the parse of the cflow outputs on *)

\* cflow outputs main can be given
In_Example1 ==
    << CallLine(0, s_main, 10), CallLine(1, s_foo, 20),
       CallLine(1, s_bar, -1),  CallLine(2, s_foo, 20) >>
In_FileA == << CallLine(0, s_main, 5), CallLine(1, s_helper, -1) >>
In_FileB == << CallLine(0, s_helper, 42), CallLine(1, s_bar, -1) >>
In_Blank == << >>
In_Skipped == << CallLine(0, s_main, 10), CallLine(2, s_foo, -1) >>
In_Reserved ==
    << CallLine(0, s_graph, 3), CallLine(1, s_NODE, -1),
       CallLine(1, s_graph_, 7) >>

SampleInputs ==
    {In_Example1, In_FileA, In_FileB, In_Blank, In_Skipped, In_Reserved}

\* the names an exclusion file can list
ExclNames == {s_bar, s_helper, s_graph_}

SeqsUpTo(S, n) == UNION {[1..k -> S] : k \in 0..n}

InitMain ==
    /\ ParserIdle
    /\ FmtIdle
    /\ pc = "parse"
    /\ cflow_strs \in SeqsUpTo(SampleInputs, MaxFiles) \ {<<>>}
    /\ graphs = <<>>
    /\ \/ exclude = [list_fname |-> "", names |-> <<>>]
       \/ \E ns \in SeqsUpTo(ExclNames, MaxExcl) :
             exclude = [list_fname |-> "exclude.txt", names |-> ns]
    /\ flags \in [for_latex : BOOLEAN, multi_page : BOOLEAN]
    /\ dots = <<>>

\* lines 573-576: one turn of the loop that parses the cflow outputs
ParseFile ==
    /\ pc = "parse"
    /\ LET i  == Len(graphs) + 1
           st == cflow2nx(cflow_strs[i])
       IN  IF st.err # "none"
           THEN /\ pc' = "failed"
                /\ graphs' = graphs
           ELSE /\ graphs' = Append(graphs, st.g)
                /\ pc' = IF i = Len(cflow_strs) THEN "prune" ELSE "parse"
    /\ UNCHANGED <<cflow_strs, exclude, flags, dots>>
    /\ UNCHANGED <<parserVars, fmtVars>>

\* line 577
RmExcluded ==
    /\ pc = "prune"
    /\ graphs' = rm_excluded_funcs(exclude.list_fname, exclude.names, graphs)
    /\ pc' = "write"
    /\ UNCHANGED <<cflow_strs, exclude, flags, dots>>
    /\ UNCHANGED <<parserVars, fmtVars>>

\* lines 402-409: one turn of the loop of write_graphs2dot
WriteGraph ==
    /\ pc = "write"
    /\ LET i == Len(dots) + 1
           other_graphs == other_graphs_of(graphs, i)
       IN  /\ dots' = Append(dots,
                  annotate_graph(graphs[i], other_graphs,
                                 flags.for_latex, flags.multi_page))
           /\ pc' = IF i = Len(graphs) THEN "done" ELSE "write"
    /\ UNCHANGED <<cflow_strs, graphs, exclude, flags>>
    /\ UNCHANGED <<parserVars, fmtVars>>

NextMain == ParseFile \/ RmExcluded \/ WriteGraph

SpecMain == InitMain /\ [][NextMain]_vars

-----------------------------------------------------------------------------
(* choose_node_format, called on its own *)

FmtNames == {s_main, s_foo, s_graph_}

\* the argument tuples choose_node_format is called with
FmtArgs ==
    [node : FmtNames, nest_level : 0..MaxFmtNest,
     src_line : {-1, 20}, defined_somewhere : BOOLEAN,
     for_latex : BOOLEAN, multi_page : BOOLEAN]

InitFmt ==
    /\ ParserIdle
    /\ MainIdle
    /\ fmt_args \in FmtArgs
    /\ fmt_out = <<>>

\* the result of the call with the arguments a
Format(a) ==
    choose_node_format(a.node, a.nest_level, a.src_line, a.defined_somewhere,
                       a.for_latex, a.multi_page)

\* a first call
FormatOnce ==
    /\ fmt_out = <<>>
    /\ fmt_out' = <<Format(fmt_args)>>
    /\ UNCHANGED <<fmt_args, parserVars, mainVars>>

\* a second call with the same arguments
FormatAgain ==
    /\ fmt_out # <<>>
    /\ Tail(fmt_out) = <<>>
    /\ fmt_out' = Append(fmt_out, Format(fmt_args))
    /\ UNCHANGED <<fmt_args, parserVars, mainVars>>

NextFmt == FormatOnce \/ FormatAgain

SpecFmt == InitFmt /\ [][NextFmt]_vars

-----------------------------------------------------------------------------
(* The parser's history, in the terms of the input *)

Range(f) == {f[x] : x \in DOMAIN f}

\* the node identifier of the i-th non-blank line
NodeId(i) == rename_if_reserved_by_dot(lines[i].func_name)

\* the parse has consumed a non-blank line in this step
LineConsumed == Len(lines') = Len(lines) + 1

\* the earlier lines at depth d, before line j
EarlierAt(d, j) == {i \in 1..(j - 1) : lines[i].nest_level = d}

\* the most recent line before j at depth d
LastAt(d, j) == CHOOSE i \in EarlierAt(d, j) : \A k \in EarlierAt(d, j) : k <= i

\* pre-order call tree: the first line is a root, depth grows one level at a time
WellFormed ==
    /\ Len(lines) > 0 => lines[1].nest_level = 0
    /\ \A j \in 2..Len(lines) : lines[j].nest_level <= lines[j - 1].nest_level + 1

\* line j jumps upward past a level
SkipsLevel(j) == j >= 2 /\ lines[j].nest_level > lines[j - 1].nest_level + 1

-----------------------------------------------------------------------------
(* Claims about cflow2nx *)

\* C1: after any prefix of the input the graph holds at most one edge per
\* ordered (caller, callee) pair: add_edge ran at most once per pair, and a
\* line whose (stack[nestLevel-1], nodeId) edge already exists adds no edge
\* and raises no error.
C1_AtMostOneEdgePerPair ==
    [][ /\ \A i, j \in 1..Len(found_edges') :
              found_edges'[i] = found_edges'[j] => i = j
        /\ Range(found_edges') = g'.edges
        /\ LineConsumed =>
              LET l == lines'[Len(lines')]
                  n == l.nest_level
                  c == rename_if_reserved_by_dot(l.func_name)
              IN  (n > 0 /\ (n - 1) \in DOMAIN stack /\ <<stack[n - 1], c>> \in g.edges)
                  => /\ err' = "none"
                     /\ g'.edges = g.edges
                     /\ found_edges' = found_edges ]_vars

\* C1 witness: some non-root line repeated a call and added no edge
C1_Witness ==
    /\ err = "none"
    /\ Cardinality({i \in 1..Len(lines) : lines[i].nest_level > 0}) > Len(found_edges)

\* C2: for well-formed input the number of nodes equals the number of
\* distinct function names in the input (also when a name collides with a
\* renamed reserved word).
C2_NodeCountIsNameCount ==
    (WellFormed /\ err = "none") =>
        Cardinality(DOMAIN g.node)
            = Cardinality({lines[i].func_name : i \in 1..Len(lines)})

\* C3: a node's nest_level and src_line are those of the first line that
\* names it; later lines with the same identifier leave both unchanged.
C3_FirstOccurrenceWins ==
    \A n \in DOMAIN g.node :
        LET occ   == {i \in 1..Len(lines) : NodeId(i) = n}
            first == CHOOSE i \in occ : \A k \in occ : i <= k
        IN  /\ occ # {}
            /\ g.node[n] = [nest_level |-> lines[first].nest_level,
                            src_line   |-> lines[first].src_line]

\* C3 witness: a node was named again at another depth and with another
\* source line
C3_Witness ==
    \E i, j \in 1..Len(lines) :
        /\ i < j
        /\ NodeId(i) = NodeId(j)
        /\ lines[i].nest_level # lines[j].nest_level
        /\ lines[i].src_line # lines[j].src_line
        /\ err = "none"

\* C4 (as claimed): a line at depth n > 0 with no earlier line at depth n-1
\* fails, and at the failure the node set and the stack are what they were
\* before that line.
C4_FailsBeforeAnyChange ==
    [][ LineConsumed =>
          LET l == lines'[Len(lines')]
              n == l.nest_level
          IN  (n > 0 /\ EarlierAt(n - 1, Len(lines) + 1) = {})
              => /\ err' = "KeyError"
                 /\ DOMAIN g'.node = DOMAIN g.node
                 /\ stack' = stack ]_vars

\* C4 (amended): such a line fails with KeyError after stack[n] was set to
\* its node identifier and the node was added if new, and before any edge
\* is added: the edges, the other stack entries and the other nodes are
\* what they were before that line.
C4_FailsAfterNodeBeforeEdge ==
    [][ LineConsumed =>
          LET l == lines'[Len(lines')]
              n == l.nest_level
              c == rename_if_reserved_by_dot(l.func_name)
          IN  (n > 0 /\ EarlierAt(n - 1, Len(lines) + 1) = {})
              => /\ err' = "KeyError"
                 /\ DOMAIN stack' = (DOMAIN stack) \cup {n}
                 /\ stack'[n] = c
                 /\ \A k \in (DOMAIN stack) \ {n} : stack'[k] = stack[k]
                 /\ DOMAIN g'.node = (DOMAIN g.node) \cup {c}
                 /\ \A m \in DOMAIN g.node : g'.node[m] = g.node[m]
                 /\ c \notin DOMAIN g.node =>
                        g'.node[c] = [nest_level |-> n, src_line |-> l.src_line]
                 /\ g'.edges = g.edges
                 /\ found_edges' = found_edges ]_vars

\* C4 witness: the parse failed on a line that brought a new node
C4_Witness ==
    /\ err = "KeyError"
    /\ \A i \in 1..(Len(lines) - 1) : NodeId(i) # NodeId(Len(lines))
    /\ Len(lines) > 1

\* C5 (as claimed): every line that jumps upward past a level ends the parse
\* with the missing-ancestor error.
C5_EverySkipFails ==
    \A j \in 1..Len(lines) : SkipsLevel(j) => (j = Len(lines) /\ err = "KeyError")

\* C5 (amended): a line that jumps upward past a level fails, adding no
\* edge, exactly when no earlier line had depth n-1; when such a line exists
\* (a stale entry of a closed branch) no error is raised and the line is
\* attached to the most recent of them by the edge (stack[n-1], nodeId).
C5_SkipFailsUnlessStaleEntry ==
    [][ (LineConsumed /\ Len(lines) >= 1) =>
          LET j == Len(lines) + 1
              l == lines'[j]
              n == l.nest_level
              c == rename_if_reserved_by_dot(l.func_name)
          IN  n > lines[Len(lines)].nest_level + 1
              => IF \E i \in 1..Len(lines) : lines[i].nest_level = n - 1
                 THEN LET p == CHOOSE i \in 1..Len(lines) :
                                  /\ lines[i].nest_level = n - 1
                                  /\ \A k \in 1..Len(lines) :
                                        lines[k].nest_level = n - 1 => k <= i
                      IN  /\ err' = "none"
                          /\ <<rename_if_reserved_by_dot(lines[p].func_name), c>>
                                \in g'.edges
                 ELSE /\ err' = "KeyError"
                      /\ g'.edges = g.edges ]_vars

\* C5 witness: a level was skipped over a stale entry and the parse went on
C5_Witness ==
    /\ err = "none"
    /\ \E j \in 1..Len(lines) : SkipsLevel(j)

\* the edges the input describes: every non-root line, from the most
\* recent earlier line one level up
ExpectedEdges ==
    { <<NodeId(LastAt(lines[j].nest_level - 1, j)), NodeId(j)>> :
        j \in {k \in 1..Len(lines) :
                 lines[k].nest_level > 0
                 /\ EarlierAt(lines[k].nest_level - 1, k) # {}} }

\* the lines (0,main),(1,foo),(1,bar),(2,foo)
IsExample1 ==
    [i \in 1..Len(lines) |-> <<lines[i].nest_level, lines[i].func_name>>]
        = << <<0, s_main>>, <<1, s_foo>>, <<1, s_bar>>, <<2, s_foo>> >>

\* C6: for an accepted input the edges are exactly the pairs (p, c) of a
\* line c at depth d > 0 and the most recent earlier line p at depth d-1;
\* roots add no edge and recursion is kept; Example 1 gives nodes
\* {main, foo, bar} and edges {main->foo, main->bar, bar->foo}.
C6_EdgesAreParentChildPairs ==
    err = "none" =>
        /\ g.edges = ExpectedEdges
        /\ \A j \in 1..Len(lines) :
              lines[j].nest_level > 0 => EarlierAt(lines[j].nest_level - 1, j) # {}
        /\ IsExample1 =>
              /\ DOMAIN g.node = {s_main, s_foo, s_bar}
              /\ g.edges = {<<s_main, s_foo>>, <<s_main, s_bar>>, <<s_bar, s_foo>>}

\* C6 witness: Example 1 has been parsed
C6_Witness == err = "none" /\ IsExample1

\* C9: no node identifier, stack entry or edge endpoint equals a reserved
\* word of dot, compared case-insensitively.
C9_NoReservedIdentifier ==
    \A n \in (DOMAIN g.node) \cup Range(stack)
             \cup {e[1] : e \in g.edges} \cup {e[2] : e \in g.edges} :
        lower(n) \notin _DOT_RESERVED

\* C9 witness: a function named Graph is in the graph and has a caller
C9_Witness ==
    /\ \E i \in 1..Len(lines) : lines[i].func_name = s_Graph /\ lines[i].nest_level > 0
    /\ \E e \in g.edges : e[2] = s_Graph \o <<"_">>
    /\ err = "none"

-----------------------------------------------------------------------------
(* Claims about the resolver, the pruning and the formatter *)

\* C7: the value of defined_somewhere a node of graph i is formatted with
\* is true iff some graph other than graph i holds a node of that name whose
\* src_line is not -1; it is false when graph i is the only graph, graph i's
\* own definition never counts, and writing changes no graph.
C7_DefinedElsewhereIffSiblingDefines ==
    [][ Len(dots') = Len(dots) + 1 =>
          LET i == Len(dots')
          IN  /\ graphs' = graphs
              /\ DOMAIN dots'[i].node = DOMAIN graphs[i].node
              /\ \A n \in DOMAIN graphs[i].node :
                    dots'[i].node[n].defined_somewhere
                    <=> \E j \in 1..Len(graphs) :
                           /\ j # i
                           /\ n \in DOMAIN graphs[j].node
                           /\ graphs[j].node[n].src_line # -1
              /\ Len(graphs) = 1 =>
                    \A n \in DOMAIN graphs[i].node :
                        ~dots'[i].node[n].defined_somewhere ]_vars

\* C7 witness: file A calls helper without defining it, file B defines it;
\* helper is marked in A's output and not in B's
C7_Witness ==
    /\ pc = "done"
    /\ cflow_strs = <<In_FileA, In_FileB>>
    /\ s_helper \in DOMAIN dots[1].node
    /\ dots[1].node[s_helper].defined_somewhere
    /\ s_helper \in DOMAIN dots[2].node
    /\ ~dots[2].node[s_helper].defined_somewhere

\* C8: with an exclusion file, rm_excluded_funcs removes from every graph
\* the nodes the file lists and the edges incident to them and leaves the
\* other nodes, their attributes and the other edges as they were; without
\* one it changes nothing; nothing is formatted before the pruning is done,
\* and formatting changes no graph; Example 1 without bar keeps main, foo
\* and main->foo.
C8_PruneRemovesListedNodes ==
    [][ /\ pc' \in {"parse", "prune"} => dots' = <<>>
        /\ dots' # dots => (pc = "write" /\ graphs' = graphs)
        /\ (pc = "prune" /\ pc' = "write") =>
              LET rm == Range(exclude.names)
              IN  /\ Len(graphs') = Len(graphs)
                  /\ exclude.list_fname = "" => graphs' = graphs
                  /\ exclude.list_fname # "" =>
                        \A i \in 1..Len(graphs) :
                            /\ DOMAIN graphs'[i].node = (DOMAIN graphs[i].node) \ rm
                            /\ \A n \in DOMAIN graphs'[i].node :
                                  graphs'[i].node[n] = graphs[i].node[n]
                            /\ graphs'[i].edges =
                                  {e \in graphs[i].edges : e[1] \notin rm /\ e[2] \notin rm}
                            /\ (cflow_strs[i] = In_Example1 /\ rm = {s_bar}) =>
                                  /\ DOMAIN graphs'[i].node = {s_main, s_foo}
                                  /\ graphs'[i].edges = {<<s_main, s_foo>>} ]_vars

\* C8 witness: Example 1 was pruned of bar and then written
C8_Witness ==
    /\ pc = "done"
    /\ cflow_strs = <<In_Example1>>
    /\ exclude = [list_fname |-> "exclude.txt", names |-> <<s_bar>>]
    /\ graphs[1].edges = {<<s_main, s_foo>>}
    /\ DOMAIN dots[1].node = {s_main, s_foo}

\* C10: color and shape depend on the nesting depth alone: box and the
\* first palette entry at depth 0, else shapes[depth mod 5] of (box,
\* ellipse, octagon, hexagon, diamond) and palette[(depth-1) mod 5]; no
\* other argument changes them, and a second call with the same arguments
\* returns the same (label, color, shape).
C10_StyleByDepthOnly ==
    \A k \in 1..Len(fmt_out) :
        LET r == fmt_out[k]
            n == fmt_args.nest_level
        IN  /\ n = 0 => (r.shape = "box" /\ r.color = _COLORS[1])
            /\ n > 0 =>
                  /\ r.shape = <<"box", "ellipse", "octagon", "hexagon",
                                 "diamond">>[(n % 5) + 1]
                  /\ r.color = _COLORS[((n - 1) % 5) + 1]
            /\ \A b \in FmtArgs :
                  b.nest_level = n =>
                      (Format(b).color = r.color /\ Format(b).shape = r.shape)
            /\ \A j \in 1..Len(fmt_out) : fmt_out[j] = r

\* C10 witness: two calls at depth 6, past one turn of both cycles (shape
\* index 1, color index 0)
C10_Witness ==
    /\ Len(fmt_out) = 2
    /\ fmt_args.nest_level = 6
    /\ fmt_out[2].shape = "ellipse"
    /\ fmt_out[2].color = "#eecc80"

-----------------------------------------------------------------------------
(* A claim about the nodes the edges of cflow2nx bring *)

\* C11: after any prefix parsed without error, every endpoint of every edge
\* is a node that a line named, every node carries both a nest_level and a
\* src_line attribute (add_edge created no bare node), and every node whose
\* nest_level is greater than 0 has an incoming edge.
C11_EdgesJoinAttributedNodes ==
    err = "none" =>
        /\ \A e \in g.edges :
              /\ e[1] \in {NodeId(i) : i \in 1..Len(lines)}
              /\ e[2] \in {NodeId(i) : i \in 1..Len(lines)}
              /\ e[1] \in DOMAIN g.node
              /\ e[2] \in DOMAIN g.node
        /\ DOMAIN g.node = {NodeId(i) : i \in 1..Len(lines)}
        /\ \A n \in DOMAIN g.node :
              /\ DOMAIN g.node[n] = {"nest_level", "src_line"}
              /\ g.node[n].nest_level > 0 => \E e \in g.edges : e[2] = n

\* C11 witness: a node first seen at depth 2 is in the graph, reached by an
\* edge from a node first seen at depth 1
C11_Witness ==
    /\ err = "none"
    /\ \E e \in g.edges :
          /\ g.node[e[1]].nest_level = 1
          /\ g.node[e[2]].nest_level = 2

====
